---------------------------- MODULE Spec2Model ----------------------------
(***************************************************************************)
(* Model of src/vdaf/prg.rs: Seed<L>, its codec, the Prg trait and its     *)
(* AES128 instantiation (CMAC key derivation, CTR-mode expansion).         *)
(*                                                                         *)
(* Scaling.  A byte is ByteBits wide instead of 8, and a seed, a cipher    *)
(* key, a cipher block and a MAC tag are all L bytes long instead of 16.   *)
(* AES-128 itself lives in the `aes` crate; here it is a fixed keyed       *)
(* permutation of the (scaled) block space.  CMAC (`cmac` crate, over the  *)
(* lazy block buffer of `block-buffer`) and CTR mode (`ctr` crate, over    *)
(* the stream wrapper of `cipher`) are modelled step by step as those      *)
(* crates compute them, on top of that permutation.                        *)
(***************************************************************************)
EXTENDS Integers, Sequences, FiniteSets, TLC

\* ------------------------------------------------------------------ bounds
\* Seed<L>: length of a seed in bytes; also the key, block and tag length.
L == 2
\* Width of a byte in bits.
ByteBits == 2
\* Most update calls made on one PRG instance.
MaxUpdates == 2

\* ----------------------------------------------------------- derived sizes
RECURSIVE Pow2(_)
Pow2(n) == IF n = 0 THEN 1 ELSE 2 * Pow2(n - 1)

ByteMod == Pow2(ByteBits)
Byte == 0 .. (ByteMod - 1)
\* The block size of the cipher equals the seed length (16 = 16 in the code).
BlockSize == L
BlockMod == Pow2(ByteBits * BlockSize)

\* longest info string fed to one PRG instance: crosses one block boundary
MaxInfo == BlockSize + 1
\* longest single fragment / fill buffer
MaxFrag == BlockSize + 1
\* most bytes drawn from one stream: two whole blocks and one more byte
MaxOut == 2 * BlockSize + 1
\* The PRG instances a caller holds: two, as every claim relates at most two.
Slots == {1, 2}

\* ------------------------------------------------------------- byte strings
Zeros(n) == [i \in 1 .. n |-> 0]

Const(n, b) == [i \in 1 .. n |-> b]

\* byte strings over alphabet A of length exactly n
StringsOfLen(A, n) == [1 .. n -> A]

\* byte strings over alphabet A of length 0..n
StringsUpTo(A, n) == UNION {StringsOfLen(A, k) : k \in 0 .. n}

\* s[from..] with 0-based `from`, as Rust's &s[from..]
Drop(s, from) == SubSeq(s, from + 1, Len(s))

\* s[..n]
Take(s, n) == SubSeq(s, 1, n)

IsPrefix(s, t) == Len(s) <= Len(t) /\ Take(t, Len(s)) = s

\* u8 ^ u8
RECURSIVE BitXor(_, _)
BitXor(a, b) ==
    IF a = 0 THEN b
    ELSE IF b = 0 THEN a
    ELSE ((a + b) % 2) + 2 * BitXor(a \div 2, b \div 2)

\* bytewise XOR of two equally long strings
XorBytes(s, t) == [i \in 1 .. Len(s) |-> BitXor(s[i], t[i])]

\* big-endian value of a byte string, and back
RECURSIVE ToInt(_)
ToInt(s) ==
    IF Len(s) = 0 THEN 0
    ELSE ToInt(Take(s, Len(s) - 1)) * ByteMod + s[Len(s)]

RECURSIVE FromInt(_, _)
FromInt(v, n) ==
    IF n = 0 THEN <<>>
    ELSE Append(FromInt(v \div ByteMod, n - 1), v % ByteMod)

\* ------------------------------------------------------- AES (aes crate)
\* Aes128::encrypt_block under `key`: a keyed permutation of the block space
\* (multiplication by an odd number and addition are bijections mod 2^n).
AesEncrypt(key, block) ==
    LET k == ToInt(key)
        x == ToInt(block)
    IN  FromInt(((2 * k + 1) * BitXor(x, k) + k * k + 1) % BlockMod, BlockSize)

\* ------------------------------------------------------ CMAC (cmac crate)
\* Cmac::new_from_slice(key): zero chaining state, empty lazy buffer.
CmacNew(key) == [key |-> key, state |-> Zeros(BlockSize), buf |-> <<>>]

\* one compression step: state ^= block; encrypt_block(state)
CmacCompress(key, state, block) == AesEncrypt(key, XorBytes(state, block))

\* compress every whole block of `blocks` in order
RECURSIVE CmacCompressAll(_, _, _)
CmacCompressAll(key, state, blocks) ==
    IF Len(blocks) = 0 THEN state
    ELSE CmacCompressAll(key,
                         CmacCompress(key, state, Take(blocks, BlockSize)),
                         Drop(blocks, BlockSize))

\* LazyBuffer::split_blocks: the whole blocks to compress now and the tail
\* to keep; a tail that is a whole block is kept, not compressed.
LazySplit(data) ==
    LET n == Len(data)
        tail == IF n = 0 THEN 0
                ELSE IF n % BlockSize = 0 THEN BlockSize
                ELSE n % BlockSize
    IN  [blocks |-> Take(data, n - tail), leftover |-> Drop(data, n - tail)]

\* update that copies a short fragment to the start of the buffer instead of
\* behind the bytes it holds
CmacUpdateOverwrite(m, data) ==
    IF Len(data) <= BlockSize - Len(m.buf)
    THEN [m EXCEPT !.buf = data]
    ELSE [m EXCEPT !.state = CmacCompressAll(m.key, m.state,
                                              LazySplit(m.buf \o data).blocks),
                   !.buf = LazySplit(m.buf \o data).leftover]

\* Update::update(data) on the lazy buffer (BlockBuffer::digest_blocks).
CmacUpdate(m, data) ==
    LET pos == Len(m.buf)
        rem == BlockSize - pos
        n   == Len(data)
    IN  IF n <= rem
        THEN [m EXCEPT !.buf = m.buf \o data]
        ELSE LET s1   == IF pos # 0
                         THEN CmacCompress(m.key, m.state, m.buf \o Take(data, rem))
                         ELSE m.state
                 rest == IF pos # 0 THEN Drop(data, rem) ELSE data
                 sp   == LazySplit(rest)
             IN  [m EXCEPT !.state = CmacCompressAll(m.key, s1, sp.blocks),
                           !.buf = sp.leftover]

\* dbl in GF(2^n): shift left by one bit, reduce when the top bit falls out
Dbl(block) ==
    LET v == ToInt(block)
        shifted == (2 * v) % BlockMod
    IN  FromInt(IF 2 * v >= BlockMod THEN BitXor(shifted, 3) ELSE shifted,
                BlockSize)

\* the 10* padding marker, 0x80 in the code
PadByte == ByteMod \div 2

\* Mac::finalize().into_bytes(): the tag of everything absorbed so far.
CmacFinalize(m) ==
    LET pos  == Len(m.buf)
        buf  == m.buf \o Zeros(BlockSize - pos)
        key1 == Dbl(AesEncrypt(m.key, Zeros(BlockSize)))
        key2 == Dbl(key1)
        x    == XorBytes(m.state, buf)
        last == IF pos = BlockSize
                THEN XorBytes(x, key1)
                ELSE XorBytes([x EXCEPT ![pos + 1] = BitXor(x[pos + 1], PadByte)],
                              key2)
    IN  AesEncrypt(m.key, last)

\* --------------------------------------------- CTR mode (ctr, cipher crates)
\* Ctr64BE: the low half of the counter block counts, the high half is nonce.
CtrBytes == (BlockSize + 1) \div 2
CtrMod == Pow2(ByteBits * CtrBytes)

\* the counter block of block number ctr under initial value iv
CounterBlock(iv, ctr) ==
    LET nonce == Take(iv, BlockSize - CtrBytes)
        low   == ToInt(Drop(iv, BlockSize - CtrBytes))
    IN  nonce \o FromInt((low + ctr) % CtrMod, CtrBytes)

\* the next keystream block of core state s
KeystreamBlock(s) == AesEncrypt(s.key, CounterBlock(s.iv, s.ctr))

\* Ctr64BE::<Aes128>::new(key, iv): block counter 0, nothing buffered.
CtrNew(key, iv) ==
    [key |-> key, iv |-> iv, ctr |-> 0, buffer |-> Zeros(BlockSize), pos |-> 0]

\* apply_keystream_blocks: XOR whole blocks with successive keystream blocks
RECURSIVE CtrBlocks(_, _)
CtrBlocks(s, data) ==
    IF Len(data) < BlockSize THEN [s |-> s, buf |-> <<>>]
    ELSE LET ks == KeystreamBlock(s)
             r  == CtrBlocks([s EXCEPT !.ctr = s.ctr + 1], Drop(data, BlockSize))
         IN  [s |-> r.s, buf |-> XorBytes(Take(data, BlockSize), ks) \o r.buf]

\* the part of apply_keystream after the buffered bytes are used up:
\* whole blocks, then a fresh block buffered for the leftover
CtrTail(s, data) ==
    LET nb   == (Len(data) \div BlockSize) * BlockSize
        r    == CtrBlocks(s, Take(data, nb))
        left == Drop(data, nb)
        n    == Len(left)
    IN  IF n # 0
        THEN LET ks == KeystreamBlock(r.s)
             IN  [s |-> [r.s EXCEPT !.ctr = r.s.ctr + 1, !.buffer = ks, !.pos = n],
                  buf |-> r.buf \o XorBytes(left, Take(ks, n))]
        ELSE [s |-> [r.s EXCEPT !.pos = 0], buf |-> r.buf]

\* apply_keystream that forgets the block it buffered: every call starts a
\* fresh keystream block
ApplyKeystreamUnbuffered(s, data) == CtrTail(s, data)

\* StreamCipher::apply_keystream(data): XOR data with the next Len(data)
\* keystream bytes; s.pos bytes of s.buffer were handed out already.
ApplyKeystream(s, data) ==
    LET pos == s.pos
        rem == Drop(s.buffer, pos)
        n   == Len(data)
    IN  IF pos # 0 /\ n < Len(rem)
        THEN [s |-> [s EXCEPT !.pos = pos + n],
              buf |-> XorBytes(data, Take(rem, n))]
        ELSE IF pos # 0
        THEN LET r == CtrTail(s, Drop(data, Len(rem)))
             IN  [s |-> r.s, buf |-> XorBytes(Take(data, Len(rem)), rem) \o r.buf]
        ELSE CtrTail(s, data)

\* Ctr64: the blocks left before the block counter reaches its last value
RemainingBlocks(s) == (CtrMod - 1) - s.ctr

\* the keystream bytes a stream can hand out in all
Capacity == (CtrMod - 1) * BlockSize

\* a check that counts the bytes asked for as if they were blocks
CheckRemainingBytes(s, dlen) == dlen <= RemainingBlocks(s)

\* StreamCipherCoreWrapper::check_remaining(dlen): are there blocks left for
\* the bytes that the buffered block does not cover
CheckRemaining(s, dlen) ==
    LET rem    == BlockSize - s.pos
        bytes  == IF s.pos = 0 THEN dlen
                  ELSE IF dlen > rem THEN dlen - rem ELSE 0
        blocks == (bytes + BlockSize - 1) \div BlockSize
    IN  blocks <= RemainingBlocks(s)

\* ---------------------------------------------------------------- Seed<L>
Seed == StringsOfLen(Byte, L)

\* Seed::uninitialized()
Uninitialized == Zeros(L)

\* ---------------------------------------------- SeedStreamAes128, PrgAes128
\* SeedStreamAes128::new(key, iv)
SeedStreamNew(key, iv) == CtrNew(key, iv)

\* fill without buf.fill(0): the keystream is XORed into what the buffer held
SeedStreamFillNoZero(s, buf) == ApplyKeystream(s, buf)

\* fill that zeroes the first block of the buffer only
SeedStreamFillZeroFirstBlock(s, buf) ==
    ApplyKeystream(s, Zeros(IF Len(buf) < BlockSize THEN Len(buf) ELSE BlockSize)
                      \o Drop(buf, BlockSize))

\* SeedStream::fill(buf): buf.fill(0); apply_keystream(buf)
SeedStreamFill(s, buf) == ApplyKeystream(s, Zeros(Len(buf)))

\* AES-128 in this scale: the key is as long as the block
KeySize == BlockSize

\* SeedStreamAes128::new: key.into() and iv.into() panic on a wrong length
SeedStreamNewPanics(key, iv) == Len(key) # KeySize \/ Len(iv) # BlockSize

\* SeedStream::fill: apply_keystream panics when the keystream runs out
SeedStreamFillPanics(s, buf) == ~CheckRemaining(s, Len(buf))

\* Prg::init: new_from_slice(..).unwrap() panics on a wrong key length
PrgInitPanics(seed) == Len(seed) # KeySize

\* Prg::init(seed)
PrgInit(seed) == CmacNew(seed)

\* Prg::update(data)
PrgUpdate(m, data) == CmacUpdate(m, data)

\* into_seed_stream with an initial counter block of ones
PrgIntoSeedStreamOnesIv(m) == SeedStreamNew(CmacFinalize(m), Const(BlockSize, 1))

\* Prg::into_seed_stream(self)
PrgIntoSeedStream(m) == SeedStreamNew(CmacFinalize(m), Zeros(BlockSize))

\* into_seed that returns the MAC tag itself instead of expanding it
PrgIntoSeedTag(m) == CmacFinalize(m)

\* Prg::into_seed(self): fill a zeroed L-byte array from a fresh stream
PrgIntoSeed(m) ==
    LET new_seed    == Zeros(L)
        seed_stream == PrgIntoSeedStream(m)
    IN  SeedStreamFill(seed_stream, new_seed).buf

\* seed_stream that never absorbs the info string
PrgSeedStreamNoInfo(seed, info) == PrgIntoSeedStream(PrgInit(seed))

\* Prg::seed_stream(seed, info)
PrgSeedStream(seed, info) ==
    LET prg0 == PrgInit(seed)
        prg1 == PrgUpdate(prg0, info)
    IN  PrgIntoSeedStream(prg1)

PrgIntoSeedStreamPanics(m) == SeedStreamNewPanics(CmacFinalize(m), Zeros(BlockSize))

PrgIntoSeedPanics(m) ==
    \/ PrgIntoSeedStreamPanics(m)
    \/ SeedStreamFillPanics(PrgIntoSeedStream(m), Zeros(L))

PrgSeedStreamPanics(seed, info) ==
    \/ PrgInitPanics(seed)
    \/ PrgIntoSeedStreamPanics(PrgUpdate(PrgInit(seed), info))

\* ------------------------------------------------------------------- state
VARIABLES
    prg,        \* slot -> the PRG instance held there (PrgAes128)
    stream,     \* slot -> the seed stream obtained from it (SeedStreamAes128)
    derived,    \* slot -> the seed obtained from it by into_seed
    hist,       \* slot -> history of the instance (not program state)
    sa, sb,     \* two seeds a caller combines with xor / xor_accumulate
    seedHist,   \* history of the operations on sa (not program state)
    eq,         \* what the last seed comparison returned and the steps it took
    gen,        \* what the last Seed::from_rand_source returned
    panicked,   \* a PRG or stream operation panicked
    bytes,      \* Vec<u8> that encode appends to
    cursor,     \* Cursor<&[u8]> that decode reads from
    result,     \* what the last decode returned
    codecHist   \* history of the codec operations (not program state)

vars == <<prg, stream, derived, hist, sa, sb, seedHist, eq, gen, panicked,
          bytes, cursor, result, codecHist>>

prgVars == <<prg, stream, derived, hist, panicked>>
seedVars == <<sa, sb, seedHist, eq, gen>>
codecVars == <<bytes, cursor, result, codecHist>>

\* ------------------------------------------------------------ input domains
\* seeds the PRG is keyed with: the all-zero seed and 0101..01 of the test
PrgSeeds == {Const(L, 0), Const(L, 1)}
\* bytes info fragments are made of: zero and the padding marker
InfoBytes == {0, PadByte}
Fragments == StringsUpTo(InfoBytes, MaxFrag)
\* prior contents of a buffer handed to fill
FillBufs == {Const(n, b) : n \in 0 .. MaxFrag, b \in {0, 1}}

\* ------------------------------------------------------------- the PRG part
\* a slot that holds no instance: never initialised, or moved out of
NoPrg == [status |-> "none", mac |-> CmacNew(Zeros(L))]
Moved == [status |-> "moved", mac |-> CmacNew(Zeros(L))]
NoStream == [open |-> FALSE, core |-> CtrNew(Zeros(L), Zeros(BlockSize))]
NoSeed == [set |-> FALSE, seed |-> Zeros(L)]
NoHist ==
    [via |-> "none", seed |-> Zeros(L), info |-> <<>>, nupd |-> 0, parent |-> 0,
     mixed |-> FALSE, finals |-> 0, out |-> <<>>, lastAt |-> 0, asked |-> 0,
     marked |-> FALSE, baseBuf |-> <<>>,
     base |-> CtrNew(Zeros(L), Zeros(BlockSize)), baseAt |-> 0]

\* let mut prg = P::init(&seed)
AfterInit(ps, p, seed) == [ps EXCEPT ![p] = [status |-> "live", mac |-> PrgInit(seed)]]

\* update on a context shared with its clones: every live instance keyed
\* with the same seed absorbs the fragment
AfterUpdateShared(ps, p, data) ==
    [q \in DOMAIN ps |->
        IF ps[q].status = "live" /\ ps[q].mac.key = ps[p].mac.key
        THEN [ps[q] EXCEPT !.mac = PrgUpdate(@, data)]
        ELSE ps[q]]

\* prg.update(data) through &mut self: the instance in slot p alone changes
AfterUpdate(ps, p, data) == [ps EXCEPT ![p].mac = PrgUpdate(@, data)]

\* let q = p.clone() (derive(Clone) on PrgAes128): a copy by value
AfterClone(ps, p, q) == [ps EXCEPT ![q] = ps[p]]

\* finalisation through &self: the instance stays usable
AfterFinalizeBorrowed(ps, p) == ps

\* into_seed_stream(self) / into_seed(self) take self by value: p is moved out
AfterFinalize(ps, p) == [ps EXCEPT ![p] = Moved]

\* the operation panics: the program goes no further
Panic ==
    /\ panicked' = TRUE
    /\ UNCHANGED <<prg, stream, derived, seedVars, codecVars>>

PrgInitStep(p, seed) ==
    /\ ~panicked
    /\ prg[p].status = "none"
    /\ hist[p].via = "none"
    /\ hist' = [hist EXCEPT ![p].via = "init", ![p].seed = seed]
    /\ IF PrgInitPanics(seed) THEN Panic
       ELSE /\ prg' = AfterInit(prg, p, seed)
            /\ UNCHANGED <<stream, derived, panicked, seedVars, codecVars>>

PrgUpdateStep(p, data) ==
    /\ ~panicked
    /\ prg[p].status = "live"
    /\ hist[p].nupd < MaxUpdates
    /\ prg' = AfterUpdate(prg, p, data)
    /\ hist' = [hist EXCEPT
           ![p].info = @ \o data,
           ![p].nupd = @ + 1,
           ![p].mixed = @ \/ (Len(hist[p].info) > 0 /\ Len(data) > 0)]
    /\ UNCHANGED <<stream, derived, panicked, seedVars, codecVars>>

PrgCloneStep(p, q) ==
    /\ ~panicked
    /\ p # q
    /\ prg[p].status = "live"
    /\ prg[q].status = "none"
    /\ hist[q].via = "none"
    /\ prg' = AfterClone(prg, p, q)
    /\ hist' = [hist EXCEPT ![q] = [hist[p] EXCEPT !.via = "clone", !.parent = p]]
    /\ UNCHANGED <<stream, derived, panicked, seedVars, codecVars>>

PrgIntoSeedStreamStep(p) ==
    /\ ~panicked
    /\ prg[p].status = "live"
    /\ LET ss == PrgIntoSeedStream(prg[p].mac)
       IN  /\ hist' = [hist EXCEPT ![p].finals = @ + 1, ![p].base = ss]
           /\ IF PrgIntoSeedStreamPanics(prg[p].mac) THEN Panic
              ELSE /\ stream' = [stream EXCEPT ![p] = [open |-> TRUE, core |-> ss]]
                   /\ prg' = AfterFinalize(prg, p)
                   /\ UNCHANGED <<derived, panicked, seedVars, codecVars>>

PrgIntoSeedStep(p) ==
    /\ ~panicked
    /\ prg[p].status = "live"
    /\ hist' = [hist EXCEPT ![p].finals = @ + 1]
    /\ IF PrgIntoSeedPanics(prg[p].mac) THEN Panic
       ELSE /\ derived' = [derived EXCEPT
                   ![p] = [set |-> TRUE, seed |-> PrgIntoSeed(prg[p].mac)]]
            /\ prg' = AfterFinalize(prg, p)
            /\ UNCHANGED <<stream, panicked, seedVars, codecVars>>

\* P::seed_stream(&seed, info): the instance is a local of the helper
PrgSeedStreamStep(p, seed, info) ==
    /\ ~panicked
    /\ prg[p].status = "none"
    /\ hist[p].via = "none"
    /\ LET ss == PrgSeedStream(seed, info)
       IN  /\ hist' = [hist EXCEPT ![p].via = "oneshot", ![p].seed = seed,
                                   ![p].info = info, ![p].nupd = 1,
                                   ![p].finals = 1, ![p].base = ss]
           /\ IF PrgSeedStreamPanics(seed, info) THEN Panic
              ELSE /\ stream' = [stream EXCEPT ![p] = [open |-> TRUE, core |-> ss]]
                   /\ prg' = AfterFinalize(prg, p)
                   /\ UNCHANGED <<derived, panicked, seedVars, codecVars>>

\* stream.fill(&mut buf); `rebase` only moves the history's reference point:
\* the history then keeps the state the stream had before this fill, the
\* offset it began at and what the buffer held
SeedStreamFillStep(p, buf, rebase) ==
    /\ ~panicked
    /\ stream[p].open
    /\ IF SeedStreamFillPanics(stream[p].core, buf)
       THEN /\ hist' = [hist EXCEPT ![p].asked = Len(buf)]
            /\ Panic
       ELSE LET r == SeedStreamFill(stream[p].core, buf)
            IN  /\ stream' = [stream EXCEPT ![p].core = r.s]
                /\ hist' = [hist EXCEPT
                       ![p].out = @ \o r.buf,
                       ![p].base = IF rebase THEN stream[p].core ELSE @,
                       ![p].baseAt = IF rebase THEN Len(hist[p].out) ELSE @,
                       ![p].marked = @ \/ rebase,
                       ![p].baseBuf = IF rebase THEN buf ELSE @,
                       ![p].lastAt = Len(hist[p].out)]
                /\ UNCHANGED <<prg, derived, panicked, seedVars, codecVars>>

InitPrg ==
    /\ panicked = FALSE
    /\ prg = [p \in Slots |-> NoPrg]
    /\ stream = [p \in Slots |-> NoStream]
    /\ derived = [p \in Slots |-> NoSeed]
    /\ hist = [p \in Slots |-> NoHist]

\* two instances side by side, short info strings of one repeated byte,
\* absorbed in non-empty fragments
NextPrg ==
    \/ \E p \in Slots, seed \in PrgSeeds : PrgInitStep(p, seed)
    \/ \E p \in Slots, data \in StringsUpTo({PadByte}, L) \ {<<>>} :
           /\ Len(hist[p].info) + Len(data) <= L
           /\ PrgUpdateStep(p, data)
    \/ \E p, q \in Slots : PrgCloneStep(p, q)
    \/ \E p \in Slots : PrgIntoSeedStreamStep(p)
    \/ \E p \in Slots : PrgIntoSeedStep(p)
    \/ \E p \in Slots, seed \in PrgSeeds, info \in StringsUpTo({PadByte}, L) :
           PrgSeedStreamStep(p, seed, info)
    \/ \E p \in Slots, buf \in FillBufs :
           /\ Len(hist[p].out) + Len(buf) <= L + 1
           /\ SeedStreamFillStep(p, buf, FALSE)

\* one instance, every info string and every way to split the fills
NextStream ==
    \/ \E seed \in PrgSeeds : PrgInitStep(1, seed)
    \/ \E data \in Fragments :
           /\ Len(hist[1].info) + Len(data) <= MaxInfo
           /\ PrgUpdateStep(1, data)
    \/ PrgIntoSeedStreamStep(1)
    \/ PrgIntoSeedStep(1)
    \/ \E seed \in PrgSeeds, info \in Fragments : PrgSeedStreamStep(1, seed, info)
    \/ \E buf \in FillBufs, rebase \in BOOLEAN :
           /\ Len(hist[1].out) + Len(buf) <= MaxOut
           /\ SeedStreamFillStep(1, buf, rebase)

\* one instance that is filled until the keystream runs out
NextLong ==
    \/ \E seed \in PrgSeeds : PrgInitStep(1, seed)
    \/ \E data \in StringsUpTo({PadByte}, L) :
           /\ Len(hist[1].info) + Len(data) <= L
           /\ PrgUpdateStep(1, data)
    \/ PrgIntoSeedStreamStep(1)
    \/ PrgIntoSeedStep(1)
    \/ \E seed \in PrgSeeds, info \in StringsUpTo({PadByte}, L) :
           PrgSeedStreamStep(1, seed, info)
    \/ \E n \in 0 .. MaxFrag : SeedStreamFillStep(1, Zeros(n), FALSE)

\* ----------------------------------------------------------- the Seed part
\* xor_accumulate with wrapping addition in place of XOR
RECURSIVE AddAccumulateFrom(_, _, _)
AddAccumulateFrom(self, other, i) ==
    IF i > L THEN self
    ELSE AddAccumulateFrom([self EXCEPT ![i] = (self[i] + other[i]) % ByteMod],
                           other, i + 1)

\* Seed::xor_accumulate(&mut self, other): for i in 0..L { self.0[i] ^= other.0[i] }
RECURSIVE XorAccumulateFrom(_, _, _)
XorAccumulateFrom(self, other, i) ==
    IF i > L THEN self
    ELSE XorAccumulateFrom([self EXCEPT ![i] = BitXor(self[i], other[i])],
                           other, i + 1)

AddAccumulate(self, other) == AddAccumulateFrom(self, other, 1)

XorAccumulate(self, other) == XorAccumulateFrom(self, other, 1)

\* most applications of xor_accumulate that the history counts
MaxApply == 2

\* sa.xor_accumulate(&sb)
XorAccumulateStep ==
    /\ seedHist.n < MaxApply
    /\ sa' = XorAccumulate(sa, sb)
    /\ sb' = sb
    /\ seedHist' = [seedHist EXCEPT !.n = @ + 1]
    /\ UNCHANGED <<eq, gen, prgVars, codecVars>>

\* no comparison made, no seed generated yet
NoEq == [done |-> FALSE, equal |-> FALSE, visited |-> <<>>]
NoGen == [kind |-> "none", seed |-> <<>>, calls |-> 0, buflen |-> 0]

NoSeedHist(a, b) ==
    [a0 |-> a, b0 |-> b, n |-> 0, op |-> "none", l0 |-> <<>>, r0 |-> <<>>,
     alias |-> "none", src |-> <<>>]

InitSeedAny ==
    /\ sa \in Seed
    /\ sb \in Seed
    /\ seedHist = NoSeedHist(sa, sb)
    /\ eq = NoEq
    /\ gen = NoGen

InitSeedFixed ==
    /\ sa = Zeros(L)
    /\ sb = Zeros(L)
    /\ seedHist = NoSeedHist(sa, sb)
    /\ eq = NoEq
    /\ gen = NoGen

NextSeed == XorAccumulateStep

\* ---- Seed::xor ----

\* The seeds a call of xor can name: the variables sa and sb and a third
\* seed k that the caller holds.  A call whose self is also its left or its
\* right operand names the same storage twice.
SeedNames == {"a", "b", "k"}

\* the third seeds, and the seeds sb starts from when sa starts from any seed
OtherSeeds == {Const(L, ByteMod - 1), [i \in 1 .. L |-> i % ByteMod]}

\* a variant that copies left into self and then accumulates right
SeedXorCopyThenAccumulate(mem, self, left, right) ==
    LET m1 == [mem EXCEPT ![self] = mem[left]]
    IN  [m1 EXCEPT ![self] = XorAccumulate(m1[self], m1[right])]

\* for i in 0..L { self.0[i] = left.0[i] ^ right.0[i] }, on the storage mem
RECURSIVE XorFrom(_, _, _, _, _)
XorFrom(mem, self, left, right, i) ==
    IF i > L THEN mem
    ELSE XorFrom([mem EXCEPT ![self][i] = BitXor(mem[left][i], mem[right][i])],
                 self, left, right, i + 1)

SeedXor(mem, self, left, right) == XorFrom(mem, self, left, right, 1)

InitSeedSome ==
    /\ sa \in Seed
    /\ sb \in OtherSeeds \cup {Zeros(L), Const(L, 1)}
    /\ seedHist = NoSeedHist(sa, sb)
    /\ eq = NoEq
    /\ gen = NoGen

\* sa.xor(left, right), once, on seeds no operation has touched yet
XorStep(left, right, k) ==
    /\ seedHist.n = 0
    /\ seedHist.op = "none"
    /\ LET mem == [nm \in SeedNames |->
                      IF nm = "a" THEN sa ELSE IF nm = "b" THEN sb ELSE k]
           m2 == SeedXor(mem, "a", left, right)
       IN  /\ sa' = m2["a"]
           /\ sb' = m2["b"]
           /\ seedHist' = [seedHist EXCEPT
                  !.op = "xor", !.l0 = mem[left], !.r0 = mem[right],
                  !.alias = IF left = "a" /\ right = "a" THEN "both"
                            ELSE IF left = "a" THEN "left"
                            ELSE IF right = "a" THEN "right"
                            ELSE "none"]
    /\ UNCHANGED <<eq, gen, prgVars, codecVars>>

NextXor ==
    \E left \in SeedNames, right \in SeedNames, k \in OtherSeeds :
        XorStep(left, right, k)

\* ---- PartialEq for Seed ----

\* bitwise OR of two bytes
RECURSIVE BitOr(_, _)
BitOr(x, y) ==
    IF x = 0 THEN y
    ELSE IF y = 0 THEN x
    ELSE (IF x % 2 = 1 \/ y % 2 = 1 THEN 1 ELSE 0) + 2 * BitOr(x \div 2, y \div 2)

\* a variant whose accumulator keeps only the last difference (r = x ^ y)
RECURSIVE SeedEqLastFrom(_, _, _, _, _)
SeedEqLastFrom(a, b, i, r, visited) ==
    IF i > L THEN [done |-> TRUE, equal |-> (r = 0), visited |-> visited]
    ELSE SeedEqLastFrom(a, b, i + 1, BitXor(a[i], b[i]), Append(visited, i))

\* a variant that returns at the first position where the seeds differ
RECURSIVE SeedEqEarlyFrom(_, _, _, _, _)
SeedEqEarlyFrom(a, b, i, r, visited) ==
    IF i > L THEN [done |-> TRUE, equal |-> TRUE, visited |-> visited]
    ELSE IF a[i] # b[i]
         THEN [done |-> TRUE, equal |-> FALSE, visited |-> Append(visited, i)]
         ELSE SeedEqEarlyFrom(a, b, i + 1, r, Append(visited, i))

\* let mut r = 0; for (x, y) in a.iter().zip(b) { r |= x ^ y; } r == 0
\* visited lists the positions the loop body ran on, in order
RECURSIVE SeedEqFrom(_, _, _, _, _)
SeedEqFrom(a, b, i, r, visited) ==
    IF i > Len(a) \/ i > Len(b)
    THEN [done |-> TRUE, equal |-> (r = 0), visited |-> visited]
    ELSE SeedEqFrom(a, b, i + 1, BitOr(r, BitXor(a[i], b[i])), Append(visited, i))

SeedEqLast(a, b) == SeedEqLastFrom(a, b, 1, 0, <<>>)

SeedEqEarly(a, b) == SeedEqEarlyFrom(a, b, 1, 0, <<>>)

SeedEq(a, b) == SeedEqFrom(a, b, 1, 0, <<>>)

\* sa == sb, once
EqStep ==
    /\ ~eq.done
    /\ eq' = SeedEq(sa, sb)
    /\ UNCHANGED <<sa, sb, seedHist, gen, prgVars, codecVars>>

NextEq == EqStep

\* ---- Seed::generate, Seed::from_rand_source ----

\* What a random source does when it is called on a buffer: it returns Ok or
\* an error, and leaves some bytes in the buffer either way.  A source is the
\* list of its answers to successive calls.
Answers(seeds) == [ok : BOOLEAN, bytes : seeds]
RandSources == {<<r1, r2>> : r1 \in Answers(Seed), r2 \in Answers(OtherSeeds)}

\* a variant that calls the source a second time when the first call fails
FromRandSourceRetry(src) ==
    LET seed0 == Zeros(L)
        r1 == src[1]
        r2 == src[2]
    IN  IF r1.ok
        THEN [kind |-> "ok", seed |-> r1.bytes, calls |-> 1, buflen |-> Len(seed0)]
        ELSE IF r2.ok
        THEN [kind |-> "ok", seed |-> r2.bytes, calls |-> 2, buflen |-> Len(seed0)]
        ELSE [kind |-> "err", seed |-> <<>>, calls |-> 2, buflen |-> Len(seed0)]

\* let mut seed = [0; L]; rand_source(&mut seed)?; Ok(Self(seed))
FromRandSource(src) ==
    LET seed0 == Zeros(L)
        r1 == src[1]
    IN  IF r1.ok
        THEN [kind |-> "ok", seed |-> r1.bytes, calls |-> 1, buflen |-> Len(seed0)]
        ELSE [kind |-> "err", seed |-> <<>>, calls |-> 1, buflen |-> Len(seed0)]

\* Self::from_rand_source(getrandom::getrandom)
Generate(getrandom) == FromRandSource(getrandom)

\* Seed::from_rand_source(src)
FromRandSourceStep(src) ==
    /\ gen.kind = "none"
    /\ gen' = FromRandSource(src)
    /\ seedHist' = [seedHist EXCEPT !.op = "from_rand_source", !.src = src]
    /\ UNCHANGED <<sa, sb, eq, prgVars, codecVars>>

\* Seed::generate(), the system's source answering as getrandom
GenerateStep(getrandom) ==
    /\ gen.kind = "none"
    /\ gen' = Generate(getrandom)
    /\ seedHist' = [seedHist EXCEPT !.op = "generate", !.src = getrandom]
    /\ UNCHANGED <<sa, sb, eq, prgVars, codecVars>>

NextGen ==
    \/ \E src \in RandSources : FromRandSourceStep(src)
    \/ \E src \in RandSources : GenerateStep(src)

\* ---------------------------------------------------------- the codec part
\* encode that writes the length before the bytes
SeedEncodePrefixed(seed, out) == out \o <<Len(seed)>> \o seed

\* Encode::encode(&self, bytes): bytes.extend_from_slice(&self.0[..])
SeedEncode(seed, out) == out \o seed

\* read in place of read_exact: takes what is left and reports success, the
\* rest of the buffer staying zero
ReadShort(cur, n, eofToEnd) ==
    LET remaining == Drop(cur.data, cur.pos)
        k == IF Len(remaining) >= n THEN n ELSE Len(remaining)
    IN  [ok |-> TRUE, buf |-> Take(remaining, k) \o Zeros(n - k),
         cur |-> [cur EXCEPT !.pos = cur.pos + k]]

\* a read that returns the next n bytes and leaves the position where it was
ReadExactPeek(cur, n, eofToEnd) ==
    LET remaining == Drop(cur.data, cur.pos)
    IN  IF Len(remaining) >= n
        THEN [ok |-> TRUE, buf |-> Take(remaining, n), cur |-> cur]
        ELSE [ok |-> FALSE, buf |-> <<>>, cur |-> cur]

\* Cursor<&[u8]>::read_exact(buf) for a buffer of n bytes.  With fewer than n
\* bytes left it fails and fills nothing; where it leaves the position then
\* depends on the version of std (unchanged, or at the end): eofToEnd.
ReadExact(cur, n, eofToEnd) ==
    LET remaining == Drop(cur.data, cur.pos)
    IN  IF Len(remaining) >= n
        THEN [ok |-> TRUE, buf |-> Take(remaining, n),
              cur |-> [cur EXCEPT !.pos = cur.pos + n]]
        ELSE [ok |-> FALSE, buf |-> <<>>,
              cur |-> [cur EXCEPT !.pos = IF eofToEnd THEN Len(cur.data) ELSE @]]

\* Result<Seed, CodecError>
Ok(seed) == [kind |-> "ok", seed |-> seed]
Err == [kind |-> "err", seed |-> <<>>]
NoResult == [kind |-> "none", seed |-> <<>>]

\* Decode::decode(bytes): let mut seed = [0; L]; bytes.read_exact(&mut seed)?;
\* Ok(Seed(seed))
SeedDecode(cur, eofToEnd) ==
    LET r == ReadExact(cur, L, eofToEnd)
    IN  IF r.ok THEN [res |-> Ok(r.buf), cur |-> r.cur]
        ELSE [res |-> Err, cur |-> r.cur]

\* seeds handed to encode: all bytes equal, and all bytes different
CodecSeeds == {Const(L, 0), Const(L, ByteMod - 1), [i \in 1 .. L |-> i % ByteMod]}
\* longest output buffer: two encoded seeds after one earlier byte
MaxBytes == 2 * L + 1

\* most decode calls on one cursor
MaxDecodes == 2

\* seed.encode(&mut bytes)
EncodeStep(seed) ==
    /\ Len(bytes) + L <= MaxBytes
    /\ bytes' = SeedEncode(seed, bytes)
    /\ codecHist' = [codecHist EXCEPT !.encoded = Append(@, seed)]
    /\ UNCHANGED <<cursor, result, prgVars, seedVars>>

\* let mut cursor = Cursor::new(&bytes[from..to])
OpenCursorStep(from, to) ==
    /\ from <= to
    /\ to <= Len(bytes)
    /\ cursor' = [data |-> SubSeq(bytes, from + 1, to), pos |-> 0]
    /\ result' = NoResult
    /\ codecHist' = [codecHist EXCEPT !.from = from, !.to = to, !.ndec = 0,
                                      !.remBefore = 0, !.decoded = <<>>]
    /\ UNCHANGED <<bytes, prgVars, seedVars>>

\* Seed::decode(&mut cursor)
DecodeStep(eofToEnd) ==
    /\ codecHist.ndec < MaxDecodes
    /\ LET r == SeedDecode(cursor, eofToEnd)
       IN  /\ cursor' = r.cur
           /\ result' = r.res
           /\ codecHist' = [codecHist EXCEPT
                  !.ndec = @ + 1,
                  !.remBefore = Len(cursor.data) - cursor.pos,
                  !.decoded = IF r.res.kind = "ok" THEN Append(@, r.res.seed) ELSE @]
    /\ UNCHANGED <<bytes, prgVars, seedVars>>

\* the buffer may hold earlier output before the first seed is encoded
InitCodecAny ==
    /\ bytes \in StringsUpTo({PadByte}, 1)
    /\ cursor = [data |-> <<>>, pos |-> 0]
    /\ result = NoResult
    /\ codecHist = [pre |-> bytes, encoded |-> <<>>, from |-> 0, to |-> 0,
                    ndec |-> 0, remBefore |-> 0, decoded |-> <<>>]

InitCodecFixed ==
    /\ bytes = <<>>
    /\ cursor = [data |-> <<>>, pos |-> 0]
    /\ result = NoResult
    /\ codecHist = [pre |-> bytes, encoded |-> <<>>, from |-> 0, to |-> 0,
                    ndec |-> 0, remBefore |-> 0, decoded |-> <<>>]

NextCodec ==
    \/ \E seed \in CodecSeeds : EncodeStep(seed)
    \/ \E from \in 0 .. MaxBytes, to \in 0 .. MaxBytes : OpenCursorStep(from, to)
    \/ \E eofToEnd \in BOOLEAN : DecodeStep(eofToEnd)

\* --------------------------------------------------------- specifications
Init == InitPrg /\ InitSeedFixed /\ InitCodecFixed

InitSeed == InitPrg /\ InitSeedAny /\ InitCodecFixed

InitCodec == InitPrg /\ InitSeedFixed /\ InitCodecAny

InitXor == InitPrg /\ InitSeedSome /\ InitCodecFixed

Next == NextPrg

\* two PRG instances and what they are finalised into
Spec == Init /\ [][Next]_vars

\* one PRG instance, its stream filled in every split
SpecStream == Init /\ [][NextStream]_vars

\* one generator whose stream is read to the end of the keystream
SpecLong == Init /\ [][NextLong]_vars

\* two seeds combined by XOR
SpecSeed == InitSeed /\ [][NextSeed]_vars

\* seeds encoded into a buffer and decoded from slices of it
SpecCodec == InitCodec /\ [][NextCodec]_vars

\* one call of Seed::xor, with every choice of operands
SpecXor == InitXor /\ [][NextXor]_vars

\* one comparison of every pair of seeds
SpecEq == InitSeed /\ [][NextEq]_vars

\* one seed drawn from a random source, with every behaviour of the source
SpecGen == Init /\ [][NextGen]_vars

\* ------------------------------------------------------------------ claims
\* What of a stream's state its later output depends on: key, initial value,
\* block counter, position in the buffered block and the buffered bytes not
\* yet handed out.  (Buffered bytes already handed out are dead.)
Observable(s) ==
    [key |-> s.key, iv |-> s.iv, ctr |-> s.ctr, pos |-> s.pos,
     rem |-> IF s.pos = 0 THEN <<>> ELSE Drop(s.buffer, s.pos)]

\* C1: stream continuity.  Whatever state a stream was in (hist.base, taken
\* at offset hist.baseAt) and however the bytes drawn since then were split
\* into fill calls, they are the bytes one fill of the same total length
\* yields from that state, and that one fill leaves the stream where the
\* sequence of fills left it.
StreamContinuity ==
    \A p \in Slots :
        stream[p].open =>
            LET since == Drop(hist[p].out, hist[p].baseAt)
                once  == SeedStreamFill(hist[p].base, Zeros(Len(since)))
            IN  /\ once.buf = since
                /\ Observable(once.s) = Observable(stream[p].core)

\* C1 witness: from a state in the middle of a block, a first run of fills
\* ending off a block boundary, then a non-empty fill.
StreamContinuityWitness ==
    \E p \in Slots :
        /\ stream[p].open
        /\ hist[p].base.pos # 0
        /\ hist[p].baseAt < hist[p].lastAt
        /\ hist[p].lastAt < Len(hist[p].out)
        /\ (hist[p].lastAt - hist[p].baseAt) % BlockSize # 0
        /\ Len(hist[p].out) - hist[p].baseAt > BlockSize

\* C4: the info string is the concatenation of the fragments.  However the
\* info absorbed so far was cut into update calls, the instance finalises
\* to the stream and to the seed that a single update with the whole info
\* string gives.
FragmentsConcatenate ==
    \A p \in Slots :
        LET whole == PrgUpdate(PrgInit(hist[p].seed), hist[p].info)
        IN  /\ prg[p].status = "live" =>
                /\ PrgIntoSeedStream(prg[p].mac) = PrgIntoSeedStream(whole)
                /\ PrgIntoSeed(prg[p].mac) = PrgIntoSeed(whole)
            /\ (stream[p].open /\ Len(hist[p].out) = 0) =>
                Observable(stream[p].core) = Observable(PrgIntoSeedStream(whole))
            /\ stream[p].open =>
                IsPrefix(hist[p].out,
                         SeedStreamFill(PrgIntoSeedStream(whole), Zeros(MaxOut)).buf)
            /\ derived[p].set => derived[p].seed = PrgIntoSeed(whole)

\* C4 witness: an info string longer than a block, given in two non-empty
\* fragments, finalised into a stream that has produced output.
FragmentsConcatenateWitness ==
    \E p \in Slots :
        /\ stream[p].open
        /\ hist[p].via = "init"
        /\ hist[p].nupd = 2
        /\ hist[p].mixed
        /\ Len(hist[p].info) > BlockSize
        /\ Len(hist[p].out) >= L

\* the two instances absorbed the same seed and the same info string
SameContext(p, q) ==
    /\ hist[p].seed = hist[q].seed
    /\ hist[p].info = hist[q].info

\* what two streams have produced agrees byte for byte as far as both got,
\* and at equal offsets they are in the same state
Agree(p, q) ==
    LET n == IF Len(hist[p].out) <= Len(hist[q].out)
             THEN Len(hist[p].out) ELSE Len(hist[q].out)
    IN  /\ Take(hist[p].out, n) = Take(hist[q].out, n)
        /\ Len(hist[p].out) = Len(hist[q].out) =>
               Observable(stream[p].core) = Observable(stream[q].core)

\* C2: into_seed returns the first L bytes of the stream.  A seed derived
\* from one instance equals the first L bytes drawn from the stream of any
\* instance in the same state (same seed, same info).
IntoSeedIsStreamPrefix ==
    \A p, q \in Slots :
        (/\ derived[p].set
         /\ stream[q].open
         /\ SameContext(p, q)
         /\ Len(hist[q].out) >= L)
        => derived[p].seed = Take(hist[q].out, L)

\* C2 witness: prg.clone().into_seed_stream().fill(L bytes) beside
\* prg.into_seed(), after a non-empty update.
IntoSeedIsStreamPrefixWitness ==
    \E p, q \in Slots :
        /\ derived[p].set
        /\ stream[q].open
        /\ hist[q].via = "clone"
        /\ hist[q].parent = p
        /\ SameContext(p, q)
        /\ Len(hist[p].info) > 0
        /\ hist[q].lastAt = 0
        /\ Len(hist[q].out) = L

\* C3: the one-shot helper.  The stream of seed_stream(seed, info) and the
\* stream of an instance taken through init, update and into_seed_stream
\* with the same seed and info agree.
SeedStreamIsInitUpdateFinalize ==
    \A p, q \in Slots :
        (/\ hist[p].via = "oneshot"
         /\ hist[q].via \in {"init", "clone"}
         /\ stream[p].open
         /\ stream[q].open
         /\ SameContext(p, q))
        => Agree(p, q)

\* C3 witness: both routes taken with the same non-empty info, given to the
\* second in a single update, and more than a block drawn from each.
SeedStreamIsInitUpdateFinalizeWitness ==
    \E p, q \in Slots :
        /\ hist[p].via = "oneshot"
        /\ hist[q].via = "init"
        /\ hist[q].nupd = 1
        /\ stream[p].open
        /\ stream[q].open
        /\ SameContext(p, q)
        /\ Len(hist[p].info) > 0
        /\ Len(hist[p].out) > BlockSize
        /\ Len(hist[q].out) > BlockSize

\* C5: determinism.  Two instances with the same seed and the same info give
\* the same derived seed, and streams that agree at every offset both have
\* reached, however each side split its fills and whatever the buffers held.
Deterministic ==
    \A p, q \in Slots :
        SameContext(p, q) =>
            /\ (derived[p].set /\ derived[q].set) =>
                   derived[p].seed = derived[q].seed
            /\ (stream[p].open /\ stream[q].open) => Agree(p, q)

\* C5 witness: two instances initialised independently, same seed and info,
\* the same number of bytes drawn from each in different splits.
DeterministicWitness ==
    \E p, q \in Slots :
        /\ p # q
        /\ hist[p].via = "init"
        /\ hist[q].via = "init"
        /\ SameContext(p, q)
        /\ Len(hist[p].info) > 0
        /\ stream[p].open
        /\ stream[q].open
        /\ Len(hist[p].out) = L + 1
        /\ Len(hist[q].out) = L + 1
        /\ hist[p].lastAt # hist[q].lastAt

\* the program state of the instance in slot p and of what it became
SlotState(p) == <<prg[p], stream[p], derived[p]>>

\* C6: clones are independent.  A clone step copies the original and leaves
\* it as it was, and no step changes the state of two instances: an update,
\* a finalisation or a fill on one leaves the other untouched.
CloneIndependent ==
    [][ /\ \A p, q \in Slots :
              p # q => ~ (SlotState(p)' # SlotState(p) /\ SlotState(q)' # SlotState(q))
        /\ \A p, q \in Slots :
              (hist[q].via = "none" /\ hist'[q].via = "clone" /\ hist'[q].parent = p)
              => (prg'[q] = prg[p] /\ SlotState(p)' = SlotState(p))
      ]_vars

\* C6 witness: a clone still live and as it was cloned, while the original
\* has since absorbed more info and been finalised into a stream in use.
CloneIndependentWitness ==
    \E p, q \in Slots :
        /\ hist[q].via = "clone"
        /\ hist[q].parent = p
        /\ prg[q].status = "live"
        /\ stream[p].open
        /\ Len(hist[p].out) > 0
        /\ Len(hist[p].info) > Len(hist[q].info)
        /\ prg[q].mac = PrgUpdate(PrgInit(hist[q].seed), hist[q].info)

\* C7: finalisation is terminal.  An instance is never initialised twice,
\* only a live instance absorbs info or is finalised, a finalised instance
\* stays finalised and unchanged, and no instance is finalised twice.
FinalizationTerminal ==
    [][ \A p \in Slots :
          /\ <<prg[p].status, prg'[p].status>> \in
                 {<<"none", "none">>, <<"none", "live">>, <<"none", "moved">>,
                  <<"live", "live">>, <<"live", "moved">>, <<"moved", "moved">>}
          /\ prg[p].status = "moved" =>
                 /\ prg'[p] = prg[p]
                 /\ hist'[p].info = hist[p].info
                 /\ hist'[p].nupd = hist[p].nupd
                 /\ hist'[p].finals = hist[p].finals
          /\ hist'[p].finals > hist[p].finals =>
                 /\ prg'[p].status = "moved"
                 /\ hist'[p].finals = 1
      ]_vars

\* C7 witness: an instance that was initialised, updated, finalised once and
\* whose stream has been used since.
FinalizationTerminalWitness ==
    \E p \in Slots :
        /\ hist[p].via = "init"
        /\ hist[p].nupd > 0
        /\ prg[p].status = "moved"
        /\ hist[p].finals = 1
        /\ stream[p].open
        /\ Len(hist[p].out) > 0

\* the seeds of a list, one after the other
RECURSIVE Flatten(_)
Flatten(seeds) ==
    IF Len(seeds) = 0 THEN <<>> ELSE Head(seeds) \o Flatten(Tail(seeds))

\* C8: codec round trip.  The buffer holds what it held before, followed by
\* the L raw bytes of each encoded seed and nothing else; and a decode from
\* a cursor opened where the encoding of the k-th seed begins succeeds and
\* returns that seed.
CodecRoundTrip ==
    /\ bytes = codecHist.pre \o Flatten(codecHist.encoded)
    /\ \A k \in 1 .. Len(codecHist.encoded) :
           (/\ codecHist.from = Len(codecHist.pre) + (k - 1) * L
            /\ codecHist.to >= codecHist.from + L
            /\ codecHist.ndec = 1)
           => result = Ok(codecHist.encoded[k])

\* C8 witness: a seed whose bytes all differ, encoded behind another seed,
\* decoded from a cursor over exactly its encoding.
CodecRoundTripWitness ==
    \E k \in 1 .. Len(codecHist.encoded) :
        /\ k > 1
        /\ codecHist.encoded[k] = [i \in 1 .. L |-> i % ByteMod]
        /\ codecHist.from = Len(codecHist.pre) + (k - 1) * L
        /\ codecHist.to = codecHist.from + L
        /\ codecHist.ndec = 1
        /\ result.kind = "ok"

\* C9: truncated input.  A decode that found fewer than L bytes left in the
\* cursor returned an error holding no seed; a decode returns a seed only
\* when L bytes were left, and then it has L bytes.
DecodeTruncatedFails ==
    codecHist.ndec > 0 =>
        /\ codecHist.remBefore < L => result = Err
        /\ result.kind = "ok" => (codecHist.remBefore >= L /\ Len(result.seed) = L)
        /\ result.kind \in {"ok", "err"}

\* C9 witness: a decode from a cursor with some bytes left, but fewer than L.
DecodeTruncatedFailsWitness ==
    /\ codecHist.ndec > 0
    /\ codecHist.remBefore > 0
    /\ codecHist.remBefore < L
    /\ result.kind = "err"

\* bit k of v
Bit(v, k) == (v \div Pow2(k)) % 2

\* C10: xor_accumulate.  After an odd number of applications every bit of
\* every byte of a is the sum mod 2 of the bits a and b had; after an even
\* number a has its original value; b never changes.
XorAccumulateSelfInverse ==
    /\ sb = seedHist.b0
    /\ Len(sa) = L
    /\ seedHist.n % 2 = 1 =>
           \A i \in 1 .. L : \A k \in 0 .. (ByteBits - 1) :
               Bit(sa[i], k) = (Bit(seedHist.a0[i], k) + Bit(sb[i], k)) % 2
    /\ seedHist.n % 2 = 1 => \A i \in 1 .. L : sa[i] \in Byte
    /\ seedHist.n % 2 = 0 => sa = seedHist.a0

\* C10 witness: applied twice, with bytes of a and b that share set bits and
\* differ from byte to byte.
XorAccumulateSelfInverseWitness ==
    /\ seedHist.n = 2
    /\ sa = seedHist.a0
    /\ \E i \in 1 .. L : BitXor(sa[i], sb[i]) # (sa[i] + sb[i]) % ByteMod
    /\ \E i, j \in 1 .. L : sb[i] # sb[j]
\* C11: after self.xor(left, right) every byte of self is the bitwise XOR of
\* the bytes that left and right held at that index when the call began, and
\* the other seed is untouched; when self is also the left (right) operand the
\* result is what xor_accumulate with the right (left) operand gives.
XorIsBytewise ==
    seedHist.op = "xor" =>
        /\ sa \in Seed
        /\ \A i \in 1 .. L : \A k \in 0 .. ByteBits - 1 :
              Bit(sa[i], k) = (Bit(seedHist.l0[i], k) + Bit(seedHist.r0[i], k)) % 2
        /\ sb = seedHist.b0
        /\ seedHist.alias = "left" => sa = XorAccumulate(seedHist.a0, seedHist.r0)
        /\ seedHist.alias = "right" => sa = XorAccumulate(seedHist.a0, seedHist.l0)

\* self was also the right operand, the left operand was not zero and self
\* changed
XorIsBytewiseWitness ==
    /\ seedHist.op = "xor"
    /\ seedHist.alias = "right"
    /\ seedHist.l0 # Zeros(L)
    /\ seedHist.r0 = seedHist.a0
    /\ seedHist.a0 # Zeros(L)
    /\ sa # seedHist.a0
    /\ sa # seedHist.l0

\* C12: a == b returns true exactly when the two seeds hold the same byte at
\* every one of the L positions; one differing byte, at any position, the last
\* included, makes them unequal.  The comparison changes neither seed.
SeedEqExact ==
    eq.done =>
        /\ eq.equal <=> (\A i \in 1 .. L : sa[i] = sb[i])
        /\ \A i \in 1 .. L : sa[i] # sb[i] => ~eq.equal
        /\ sa = seedHist.a0
        /\ sb = seedHist.b0

\* two seeds that differ in one bit of the last byte only compared unequal
SeedEqExactWitness ==
    /\ eq.done
    /\ ~eq.equal
    /\ BitXor(sa[L], sb[L]) = 1
    /\ \A i \in 1 .. L - 1 : sa[i] = sb[i]

\* C13: a comparison runs the loop body on all L positions, in the order
\* 1..L, whatever bytes the two seeds hold: the positions visited, and so the
\* number of steps, are the same for every pair of seeds.
SeedEqConstantShape ==
    eq.done => eq.visited = [i \in 1 .. L |-> i]

\* two seeds that differ already in their first byte were compared to the end
SeedEqConstantShapeWitness ==
    /\ eq.done
    /\ sa[1] # sb[1]
    /\ sa[L] = sb[L]
    /\ Len(eq.visited) = L

\* C14: generate and from_rand_source call the source exactly once, on a
\* buffer of L bytes; when that call fails the error is returned and there is
\* no seed, whatever a second call would have answered; when it succeeds the
\* seed holds exactly the L bytes the source left in the buffer.
RandSourceCalledOnce ==
    gen.kind # "none" =>
        LET r1 == seedHist.src[1]
        IN  /\ gen.calls = 1
            /\ gen.buflen = L
            /\ r1.ok => gen.kind = "ok" /\ gen.seed = r1.bytes /\ Len(gen.seed) = L
            /\ ~r1.ok => gen.kind = "err" /\ gen.seed = <<>>

\* the source failed after writing into the buffer, a second call would have
\* succeeded, and the error was returned
RandSourceCalledOnceWitness ==
    /\ gen.kind = "err"
    /\ seedHist.op = "generate"
    /\ ~seedHist.src[1].ok
    /\ seedHist.src[1].bytes # Zeros(L)
    /\ seedHist.src[2].ok

\* the bytes that fills of slot p have asked for in all, the last one included
Asked(p) ==
    IF panicked THEN Len(hist[p].out) + hist[p].asked ELSE Len(hist[p].out)

\* C15: once a seed exists, init, update, into_seed_stream, into_seed,
\* seed_stream and fill never panic, for any seed, any fragments (none and
\* empty ones included) and any fills, as long as the fills ask in all for no
\* more bytes than the block counter can number (Capacity); the one operation
\* that panics is the fill that asks for more.
NoPanicWithinKeystream ==
    /\ panicked =>
          /\ stream[1].open
          /\ Asked(1) > Capacity
          /\ Len(hist[1].out) <= Capacity
    /\ ~panicked /\ stream[1].open => Asked(1) <= Capacity

\* a stream made with a non-empty info string has handed out every byte of its
\* keystream, the last fill ending inside the last block, and nothing panicked
NoPanicWithinKeystreamWitness ==
    /\ ~panicked
    /\ stream[1].open
    /\ hist[1].info # <<>>
    /\ Len(hist[1].out) = Capacity
    /\ hist[1].lastAt % BlockSize # 0

\* C15 as stated: no operation ever panics, whatever the fills ask for
NeverPanics == ~panicked

\* the keystream byte at offset p (from 0) of counter mode under key and iv:
\* byte p % BlockSize of the encryption of counter block p \div BlockSize
KeystreamByte(key, iv, p) ==
    AesEncrypt(key, CounterBlock(iv, p \div BlockSize))[(p % BlockSize) + 1]

\* the fill whose buffer the history kept is the last fill of slot p
MarkedFillIsLast(p) ==
    /\ stream[p].open
    /\ hist[p].marked
    /\ hist[p].lastAt = hist[p].baseAt
    /\ Len(hist[p].out) = hist[p].baseAt + Len(hist[p].baseBuf)

\* C17: fill overwrites: after a fill that began at offset c the buffer holds
\* the keystream bytes [c, c + buf.len()), whatever it held before, and a fill
\* from the same stream state into a buffer of the same length with any other
\* content leaves the same buffer and the same stream state.
FillOverwrites ==
    MarkedFillIsLast(1) =>
        LET h == hist[1]
            n == Len(h.baseBuf)
            after == [s |-> stream[1].core, buf |-> Drop(h.out, h.baseAt)]
        IN  /\ \A i \in 1 .. n :
                  h.out[h.baseAt + i] =
                      KeystreamByte(h.base.key, h.base.iv, h.baseAt + i - 1)
            /\ \A b \in FillBufs : Len(b) = n => SeedStreamFill(h.base, b) = after

\* a buffer of ones, longer than a block, was filled from the middle of a
\* block
FillOverwritesWitness ==
    /\ MarkedFillIsLast(1)
    /\ Len(hist[1].baseBuf) > BlockSize
    /\ hist[1].baseBuf = Const(Len(hist[1].baseBuf), 1)
    /\ hist[1].baseAt % BlockSize # 0

\* the keystream offset a stream stands at: the blocks generated, less the
\* part of the buffered block not handed out yet
StreamCursor(s) ==
    IF s.pos = 0 THEN s.ctr * BlockSize ELSE (s.ctr - 1) * BlockSize + s.pos

\* C18: the cursor only moves forward.  A new stream has an all-zero initial
\* counter block and stands at offset 0; a fill of n bytes at offset c hands
\* out the keystream bytes [c, c + n), the byte at offset q being byte
\* q % BlockSize of the block with counter q \div BlockSize, and leaves the
\* cursor at c + n; no step moves the cursor back, and the cursor always
\* equals the sum of the lengths filled.
CursorMovesForward ==
    [][ stream'[1].open =>
          LET s2 == stream'[1].core
              c2 == StreamCursor(s2)
              c  == StreamCursor(stream[1].core)
              n  == Len(hist'[1].out) - Len(hist[1].out)
          IN  /\ c2 = Len(hist'[1].out)
              /\ s2.iv = Zeros(BlockSize)
              /\ ~stream[1].open => c2 = 0 /\ s2.ctr = 0
              /\ stream[1].open =>
                    /\ n >= 0
                    /\ c2 = c + n
                    /\ Take(hist'[1].out, c) = hist[1].out
                    /\ \A i \in 1 .. n :
                          hist'[1].out[c + i] =
                              KeystreamByte(s2.key, Zeros(BlockSize), c + i - 1)
      ]_vars

\* several fills, the last one from the middle of one block to the middle of
\* a later one
CursorMovesForwardWitness ==
    /\ stream[1].open
    /\ StreamCursor(stream[1].core) = Len(hist[1].out)
    /\ hist[1].lastAt > 0
    /\ hist[1].lastAt % BlockSize # 0
    /\ Len(hist[1].out) - hist[1].lastAt >= BlockSize
    /\ stream[1].core.pos # 0

\* C19: encode and decode touch exactly L bytes.  An encode leaves the bytes
\* already in the buffer as they were and appends the L bytes of the seed; a
\* successful decode returns the next L bytes of the cursor and moves it by
\* exactly L, reading nothing behind them and changing neither the data nor
\* the buffer; so the decodes from a cursor opened at the first encoded seed
\* return the encoded seeds in order.
SeedCodecFrame ==
    [][ LET h == codecHist'
        IN  /\ bytes' # bytes =>
                  /\ Len(bytes') = Len(bytes) + L
                  /\ Take(bytes', Len(bytes)) = bytes
                  /\ Drop(bytes', Len(bytes)) = h.encoded[Len(h.encoded)]
            /\ h.ndec = codecHist.ndec + 1 =>
                  /\ cursor'.data = cursor.data
                  /\ bytes' = bytes
                  /\ result'.kind = "ok" =>
                        /\ cursor'.pos = cursor.pos + L
                        /\ result'.seed =
                               SubSeq(cursor.data, cursor.pos + 1, cursor.pos + L)
            /\ (h.from = Len(h.pre) /\ (h.to - h.from) % L = 0) =>
                  /\ Len(h.decoded) =
                         IF h.ndec * L <= h.to - h.from THEN h.ndec
                         ELSE (h.to - h.from) \div L
                  /\ \A j \in 1 .. Len(h.decoded) : h.decoded[j] = h.encoded[j]
      ]_vars

\* two different seeds, encoded behind an earlier byte, were decoded in order
\* from one cursor opened behind that byte
SeedCodecFrameWitness ==
    /\ codecHist.pre # <<>>
    /\ codecHist.from = Len(codecHist.pre)
    /\ codecHist.to = Len(bytes)
    /\ Len(codecHist.decoded) = 2
    /\ codecHist.decoded = codecHist.encoded
    /\ codecHist.decoded[1] # codecHist.decoded[2]
    /\ cursor.pos = 2 * L

==========================================================================
